---- MODULE Spec2Model ----
(***************************************************************************)
(* Model of the CircuitPython WiFi button controller (src/code.py).        *)
(*                                                                         *)
(* Text is a sequence of Unicode code points, a byte string a sequence of  *)
(* numbers 0..255.  Time is counted in milliseconds.                       *)
(***************************************************************************)
EXTENDS Integers, Sequences, FiniteSets, TLC

VARIABLES
    pc,              \* where main() is
    timer,           \* ms left of the sleep or receive timeout in progress
    config,          \* the dictionary load_configuration builds
    drv,             \* "none" (setup_haptic returned None) or "drv"
    attempt,         \* loop variable of connect_wifi / send_handshake
    hs,              \* what send_handshake did: sendto calls, delays, result
    raw,             \* btn.value: TRUE = not pressed (pulled up), FALSE = pressed
    prev_btn_state,  \* main's prev_btn_state
    curr_btn_state,  \* handle_button_events' curr_btn_state
    inbox,           \* datagrams queued on recv_sock
    ev,              \* events emitted and sendto calls made by the loop so far
    tk,              \* what the current tick has done so far
    obs,             \* clocks and flags observing the raw input (not program state)
    codec            \* the codec's input and output (CodecSpec)

vars == <<pc, timer, config, drv, attempt, hs, raw, prev_btn_state,
          curr_btn_state, inbox, ev, tk, obs, codec>>

(***************************************************************************)
(* Bounds of the model.                                                    *)
(***************************************************************************)
MaxFlips == 3        \* raw-input changes the environment makes
MaxInbox == 1        \* datagrams pending on recv_sock
MaxTail == 3         \* code points after the leading '/' of a generated address
MaxArgs == 2         \* arguments of a generated message
MaxRawLen == 4       \* length of a generated byte string handed to pad4
MaxPending == 2      \* datagrams pending on recv_sock in QueueSpec

(***************************************************************************)
(* Program constants.                                                      *)
(***************************************************************************)
TickSleepMs == 50
DebounceMs == 200
RecvTimeoutMs == 10
RecvBufferSize == 1024
WifiMaxRetries == 3
HandshakeMaxRetries == 3
PressCode == 33

Min(a, b) == IF a <= b THEN a ELSE b

MinInt32 == -2147483647 - 1
MaxInt32 == 2147483647

(***************************************************************************)
(* Text used by the program.                                               *)
(***************************************************************************)
ButtonPressAddr == <<47, 98, 117, 116, 116, 111, 110, 47, 112, 114, 101, 115, 115>>
ButtonReleaseAddr ==
    <<47, 98, 117, 116, 116, 111, 110, 47, 114, 101, 108, 101, 97, 115, 101>>
HandshakeAddr ==
    <<47, 98, 117, 116, 116, 111, 110, 47, 104, 97, 110, 100, 115, 104, 97, 107, 101>>
HapticPlayAddr == <<47, 104, 97, 112, 116, 105, 99, 47, 112, 108, 97, 121>>
ReleasePayload == <<116, 101, 115, 116>>
DefaultDeviceId ==
    <<117, 110, 107, 110, 111, 119, 110, 95, 100, 101, 118, 105, 99, 101>>

(***************************************************************************)
(* str.encode('utf-8') and bytes.decode('utf-8').                          *)
(***************************************************************************)
Utf8Char(cp) ==
    IF cp < 128 THEN <<cp>>
    ELSE IF cp < 2048 THEN <<192 + (cp \div 64), 128 + (cp % 64)>>
    ELSE IF cp < 65536
        THEN <<224 + (cp \div 4096), 128 + ((cp \div 64) % 64), 128 + (cp % 64)>>
    ELSE <<240 + (cp \div 262144), 128 + ((cp \div 4096) % 64),
           128 + ((cp \div 64) % 64), 128 + (cp % 64)>>

RECURSIVE Utf8Encode(_)
Utf8Encode(s) ==
    IF s = <<>> THEN <<>> ELSE Utf8Char(Head(s)) \o Utf8Encode(Tail(s))

IsCont(b) == b >= 128 /\ b < 192

\* One step of the strict decoder at position i of b: the code point and the
\* number of bytes it takes, or n = 0 when the bytes at i are not valid UTF-8.
Utf8Step(b, i) ==
    LET b0 == b[i]
        has(k) == i + k <= Len(b) /\ \A j \in 1..k : IsCont(b[i + j])
    IN  IF b0 < 128 THEN [n |-> 1, cp |-> b0]
        ELSE IF b0 >= 194 /\ b0 < 224 /\ has(1)
            THEN [n |-> 2, cp |-> (b0 - 192) * 64 + (b[i + 1] - 128)]
        ELSE IF b0 >= 224 /\ b0 < 240 /\ has(2)
            THEN LET cp == (b0 - 224) * 4096 + (b[i + 1] - 128) * 64 + (b[i + 2] - 128)
                 IN  IF cp >= 2048 /\ ~(cp >= 55296 /\ cp <= 57343)
                         THEN [n |-> 3, cp |-> cp]
                         ELSE [n |-> 0, cp |-> 0]
        ELSE IF b0 >= 240 /\ b0 < 245 /\ has(3)
            THEN LET cp == (b0 - 240) * 262144 + (b[i + 1] - 128) * 4096
                           + (b[i + 2] - 128) * 64 + (b[i + 3] - 128)
                 IN  IF cp >= 65536 /\ cp <= 1114111
                         THEN [n |-> 4, cp |-> cp]
                         ELSE [n |-> 0, cp |-> 0]
        ELSE [n |-> 0, cp |-> 0]

\* bytes.decode('utf-8') from position i on, text being what is decoded so
\* far: ok = FALSE stands for UnicodeDecodeError.
RECURSIVE Utf8DecodeFrom(_, _, _)
Utf8DecodeFrom(b, i, text) ==
    IF i > Len(b) THEN [ok |-> TRUE, text |-> text]
    ELSE IF Utf8Step(b, i).n = 0 THEN [ok |-> FALSE, text |-> <<>>]
    ELSE Utf8DecodeFrom(b, i + Utf8Step(b, i).n, Append(text, Utf8Step(b, i).cp))

Utf8Decode(b) == Utf8DecodeFrom(b, 1, <<>>)

(***************************************************************************)
(* The message codec.                                                      *)
(***************************************************************************)
Zeros(n) == [i \in 1..n |-> 0]

\* Mutant: the outer "% 4" forgotten.
pad4Always(s) == s \o Zeros(4 - (Len(s) % 4))

pad4(s) == s \o Zeros((4 - (Len(s) % 4)) % 4)

\* Mutant: 'little' for 'big'.
ToBytes4Little(n) ==
    LET low == IF n >= 0 THEN n ELSE (n + 2147483647) + 1
        top == (low \div 16777216) + (IF n >= 0 THEN 0 ELSE 128)
    IN  <<low % 256, (low \div 256) % 256, (low \div 65536) % 256, top>>

\* int.to_bytes(4, 'big', signed=True) of an Int32 (two's complement).
ToBytes4(n) ==
    LET low == IF n >= 0 THEN n ELSE (n + 2147483647) + 1   \* the low 31 bits
        top == (low \div 16777216) + (IF n >= 0 THEN 0 ELSE 128)
    IN  <<top, (low \div 65536) % 256, (low \div 256) % 256, low % 256>>

\* An argument is [type |-> "i", val |-> an Int32] or
\* [type |-> "s", val |-> text]: what isinstance tells apart.
IntArg(n) == [type |-> "i", val |-> n, text |-> <<>>]
StrArg(s) == [type |-> "s", val |-> 0, text |-> s]

RECURSIVE TypeTags(_)
TypeTags(args) ==
    IF args = <<>> THEN <<>>
    ELSE (IF Head(args).type = "s" THEN <<115>> ELSE <<105>>) \o TypeTags(Tail(args))

\* What the second loop appends to msg for one argument (lines 141-147).
ArgField(arg) ==
    IF arg.type = "s"
        THEN pad4(Utf8Encode(arg.text) \o <<0>>)
        ELSE ToBytes4(arg.val)

\* The pieces build_osc_message appends to msg, in order: the address, the
\* type tags, one piece per argument.
OscFields(address, args) ==
    <<pad4(Utf8Encode(address)), pad4(Utf8Encode(<<44>> \o TypeTags(args)))>>
    \o [i \in 1..Len(args) |-> ArgField(args[i])]

RECURSIVE Flatten(_)
Flatten(fields) ==
    IF fields = <<>> THEN <<>> ELSE Head(fields) \o Flatten(Tail(fields))

build_osc_message(address, args) == Flatten(OscFields(address, args))

\* bytes.find(b'\x00'): the 0-based position of the first null byte, or -1.
RECURSIVE FindNullFrom(_, _)
FindNullFrom(data, i) ==
    IF i > Len(data) THEN -1
    ELSE IF data[i] = 0 THEN i - 1
    ELSE FindNullFrom(data, i + 1)

\* ok = FALSE stands for the result None.
ParseFailed == [ok |-> FALSE, address |-> <<>>]

\* Mutant: a datagram without a null byte is taken whole as the address.
parse_osc_message_Whole(data) ==
    LET null_pos == FindNullFrom(data, 1)
        dec == Utf8Decode(IF null_pos = -1 THEN data ELSE SubSeq(data, 1, null_pos))
    IN  IF dec.ok THEN [ok |-> TRUE, address |-> dec.text] ELSE ParseFailed

parse_osc_message(data) ==
    LET null_pos == FindNullFrom(data, 1)
    IN  IF null_pos = -1 THEN ParseFailed
        ELSE LET dec == Utf8Decode(SubSeq(data, 1, null_pos))
             IN  IF dec.ok THEN [ok |-> TRUE, address |-> dec.text]
                 ELSE ParseFailed

(***************************************************************************)
(* int(config['DEVICE_ID']): ok = FALSE stands for ValueError.             *)
(***************************************************************************)
IsDigit(c) == c >= 48 /\ c <= 57

RECURSIVE DigitsValue(_, _)
DigitsValue(s, acc) ==
    IF s = <<>> THEN acc ELSE DigitsValue(Tail(s), acc * 10 + (Head(s) - 48))

PyInt(s) ==
    LET signed == s # <<>> /\ Head(s) \in {43, 45}
        digits == IF signed THEN Tail(s) ELSE s
    IN  IF digits # <<>> /\ \A i \in 1..Len(digits) : IsDigit(digits[i])
            THEN [ok |-> TRUE,
                  val |-> IF signed /\ Head(s) = 45
                              THEN 0 - DigitsValue(digits, 0)
                              ELSE DigitsValue(digits, 0)]
            ELSE [ok |-> FALSE, val |-> 0]

(***************************************************************************)
(* Exceptions: which class each except clause catches.                     *)
(***************************************************************************)
IsOSError(e) == e = "OSError"
IsException(e) == e \in {"OSError", "RuntimeError", "ValueError"}

\* Mutants: an except clause that names OSError only.
IncomingCatchesTimeoutOnly(e) == IsOSError(e)
PressCatchesOSErrorOnly(e) == IsOSError(e)

IncomingCatches(e) == IsOSError(e) \/ IsException(e)
PressCatches(e) == IsException(e)
ReleaseCatches(e) == IsException(e)
HandshakeCatches(e) == IsException(e)

\* What the collaborators can answer: "ok" or the class of the exception raised.
SendOutcomes == {"ok", "OSError"}
HapticOutcomes == {"ok", "OSError", "RuntimeError"}
RecvOutcomes == {"ok", "OSError"}

(***************************************************************************)
(* The environment's values.                                               *)
(***************************************************************************)
\* DEVICE_ID as os.getenv returns it: "42", or the default when it is not set.
DeviceIds == {<<52, 50>>, DefaultDeviceId}

UnknownAddr == <<47, 120>>
\* Inbound datagrams: a well-formed /haptic/play, a well-formed unknown address,
\* one without a null byte, one whose address is not UTF-8, one starting with a
\* null byte, and an empty one.
Datagrams ==
    { HapticPlayAddr \o <<0, 0, 0, 0>>,
      UnknownAddr \o <<0, 0>>,
      <<47, 120, 121, 122>>,
      <<47, 255, 0, 0>>,
      <<0, 0, 0, 0>>,
      <<>> }

LoopPcs == {"recv", "button", "debounce", "tick_sleep"}
InLoop == pc \in LoopPcs

\* The longest time between two button polls: receive timeout, hold, tick sleep.
MaxPollGapMs == RecvTimeoutMs + DebounceMs + TickSleepMs
\* The resolution of the model's clock.
TimeStepMs == RecvTimeoutMs
\* One polling interval with nothing to receive: tick sleep, receive timeout.
PollPeriodMs == TickSleepMs + RecvTimeoutMs
\* The clocks of obs stop counting here.
AgeCap == MaxPollGapMs + TimeStepMs
\* Scenario 5's window for a press followed by its release.
QuickPressMs == 2 * TickSleepMs

HsIdle == [attempts |-> 0, sends |-> 0, delays |-> 0, result |-> "none", msg |-> <<>>]
TickStart == [steps |-> <<>>, faults |-> {}, sent |-> <<>>]
CodecIdle == [stage |-> "idle", address |-> <<>>, args |-> <<>>, bytes |-> <<>>,
              fields |-> <<>>, msg |-> <<>>, parsed |-> ParseFailed]

Init ==
    /\ pc = "load_configuration"
    /\ timer = 0
    /\ config \in [ssid : BOOLEAN, password : BOOLEAN, pc_ip : BOOLEAN,
                   device_id : DeviceIds]
    /\ drv = "none"
    /\ attempt = 0
    /\ hs = HsIdle
    /\ raw \in BOOLEAN
    /\ prev_btn_state = TRUE
    /\ curr_btn_state = TRUE
    /\ inbox = <<>>
    /\ ev = [pressed |-> 0, released |-> 0, press_sends |-> 0, release_sends |-> 0]
    /\ tk = TickStart
    /\ obs = [flips |-> 0, raw0 |-> raw, levelAge |-> 0, seen |-> FALSE,
              lastPoll |-> TRUE, missed |-> FALSE,
              sinceRelease |-> AgeCap, lastGap |-> AgeCap, firstPulse |-> "na"]
    /\ codec = CodecIdle

(***************************************************************************)
(* Startup: main() up to the loop.                                         *)
(***************************************************************************)
\* Mutant: the required values are not validated.
LoadConfigurationNoCheck ==
    /\ pc = "load_configuration"
    /\ pc' = "setup_hardware"
    /\ UNCHANGED <<timer, config, drv, attempt, hs, raw, prev_btn_state,
                   curr_btn_state, inbox, ev, tk, obs, codec>>

LoadConfiguration ==
    /\ pc = "load_configuration"
    /\ pc' = IF config.ssid /\ config.password /\ config.pc_ip
                 THEN "setup_hardware"
                 ELSE "fatal"            \* ValueError leaves main
    /\ UNCHANGED <<timer, config, drv, attempt, hs, raw, prev_btn_state,
                   curr_btn_state, inbox, ev, tk, obs, codec>>

\* setup_button, then setup_haptic: the driver, or None when it raised.
SetupHardware ==
    /\ pc = "setup_hardware"
    /\ \E found \in BOOLEAN : drv' = IF found THEN "drv" ELSE "none"
    /\ pc' = "connect_wifi"
    /\ attempt' = 0
    /\ UNCHANGED <<timer, config, hs, raw, prev_btn_state, curr_btn_state,
                   inbox, ev, tk, obs, codec>>

\* One iteration of connect_wifi's loop.
ConnectWifi ==
    /\ pc = "connect_wifi"
    /\ \E connected \in BOOLEAN :
          pc' = IF connected THEN "setup_sockets"
                ELSE IF attempt < WifiMaxRetries - 1 THEN "wifi_retry_sleep"
                ELSE "exit"              \* esp32_ip is None: main returns
    /\ UNCHANGED <<timer, config, drv, attempt, hs, raw, prev_btn_state,
                   curr_btn_state, inbox, ev, tk, obs, codec>>

WifiRetrySleep ==
    /\ pc = "wifi_retry_sleep"
    /\ attempt' = attempt + 1
    /\ pc' = "connect_wifi"
    /\ UNCHANGED <<timer, config, drv, hs, raw, prev_btn_state, curr_btn_state,
                   inbox, ev, tk, obs, codec>>

SetupSockets ==
    /\ pc = "setup_sockets"
    /\ pc' = "send_handshake"
    /\ attempt' = 0
    /\ UNCHANGED <<timer, config, drv, hs, raw, prev_btn_state, curr_btn_state,
                   inbox, ev, tk, obs, codec>>

\* Line 234: whether a failed attempt is followed by time.sleep(1).
\* Mutant: the test dropped.
SleepAfterEveryFailure(a) == TRUE

SleepAfterFailure(a) == a < HandshakeMaxRetries - 1

\* Line 222: whether range(max_retries) has a value after a.
HasNextAttempt(a) == a + 1 < HandshakeMaxRetries

\* One iteration of send_handshake's loop up to its return, its sleep or its
\* end; sent is sendto's answer.
SendHandshakeAttempt(sent) ==
    LET id == PyInt(config.device_id)
        raised == IF ~id.ok THEN "ValueError" ELSE sent
        caught == raised # "ok" /\ HandshakeCatches(raised)
        over == caught /\ ~SleepAfterFailure(attempt) /\ ~HasNextAttempt(attempt)
    IN  /\ hs' = [hs EXCEPT
                    !.attempts = @ + 1,
                    !.sends = IF id.ok THEN @ + 1 ELSE @,
                    !.msg = IF id.ok
                                THEN build_osc_message(HandshakeAddr, <<IntArg(id.val)>>)
                                ELSE @,
                    !.result = IF raised = "ok" THEN "success"
                               ELSE IF over THEN "failure"
                               ELSE @]
        /\ pc' = IF raised = "ok" THEN "ready"
                 ELSE IF ~caught THEN "fatal"
                 ELSE IF SleepAfterFailure(attempt) THEN "handshake_retry_sleep"
                 ELSE IF HasNextAttempt(attempt) THEN "send_handshake"
                 ELSE "ready"
        /\ attempt' = IF caught /\ ~SleepAfterFailure(attempt) /\ HasNextAttempt(attempt)
                          THEN attempt + 1 ELSE attempt

SendHandshake ==
    /\ pc = "send_handshake"
    /\ \E sent \in SendOutcomes : SendHandshakeAttempt(sent)
    /\ UNCHANGED <<timer, config, drv, raw, prev_btn_state,
                   curr_btn_state, inbox, ev, tk, obs, codec>>

\* time.sleep(1) is over: the next iteration, or the end of the loop and
\* return False.
HandshakeRetrySleep ==
    /\ pc = "handshake_retry_sleep"
    /\ hs' = [hs EXCEPT !.delays = @ + 1,
                        !.result = IF HasNextAttempt(attempt) THEN @ ELSE "failure"]
    /\ attempt' = IF HasNextAttempt(attempt) THEN attempt + 1 ELSE attempt
    /\ pc' = IF HasNextAttempt(attempt) THEN "send_handshake" ELSE "ready"
    /\ UNCHANGED <<timer, config, drv, raw, prev_btn_state, curr_btn_state,
                   inbox, ev, tk, obs, codec>>

\* Mutant: main returns when the handshake failed.
EnterLoopIfSuccess ==
    /\ pc = "ready"
    /\ prev_btn_state' = TRUE
    /\ hs' = HsIdle
    /\ tk' = TickStart
    /\ pc' = IF hs.result = "success" THEN "recv" ELSE "exit"
    /\ timer' = RecvTimeoutMs
    /\ UNCHANGED <<config, drv, attempt, raw, curr_btn_state, inbox, ev, obs, codec>>

\* Lines 319-323: send_handshake's result is dropped, the loop is entered.
EnterLoop ==
    /\ pc = "ready"
    /\ prev_btn_state' = TRUE
    /\ hs' = HsIdle
    /\ tk' = TickStart
    /\ pc' = "recv"
    /\ timer' = RecvTimeoutMs
    /\ UNCHANGED <<config, drv, attempt, raw, curr_btn_state, inbox, ev, obs, codec>>

(***************************************************************************)
(* The control loop.                                                       *)
(***************************************************************************)
Log(t, steps, faults) ==
    [t EXCEPT !.steps = @ \o steps, !.faults = @ \cup faults]

\* recv_buffer[:bytes_received]: recvfrom_into fills at most the buffer.
Received(d) == SubSeq(d, 1, Min(Len(d), RecvBufferSize))

\* parse_osc_message(recv_buffer[:bytes_received]) for each datagram the peer
\* can send, computed once.
ParsedDatagram == [d \in Datagrams |-> parse_osc_message(Received(d))]

\* Mutant: the address is not looked at.
handle_incoming_osc_AnyAddress(address, played) ==
    IF drv # "none"
        THEN [steps |-> <<"dispatch", "haptic_in">>, raised |-> played,
              faults |-> IF played = "ok" THEN {} ELSE {"haptic_in"}]
        ELSE [steps |-> <<"dispatch">>, raised |-> "ok", faults |-> {}]

\* handle_incoming_osc(address, drv); played is drv.play()'s answer.
\* The steps it takes and the exception it raises ("ok": none).
handle_incoming_osc(address, played) ==
    IF address = HapticPlayAddr
        THEN IF drv # "none"
                 THEN [steps |-> <<"dispatch", "haptic_in">>, raised |-> played,
                       faults |-> IF played = "ok" THEN {} ELSE {"haptic_in"}]
                 ELSE [steps |-> <<"dispatch">>, raised |-> "ok", faults |-> {}]
        ELSE [steps |-> <<"dispatch">>, raised |-> "ok", faults |-> {"unknown"}]

\* The body of handle_incoming_messages' try block.  got is recvfrom_into's
\* answer: "timeout" (nothing pending, OSError), "ok" (the head of the inbox),
\* or the class of another exception.
IncomingBody(got, played) ==
    IF got = "timeout"
        THEN [steps |-> <<"recv">>, raised |-> "OSError", faults |-> {}]
    ELSE IF got # "ok"
        THEN [steps |-> <<"recv">>, raised |-> got, faults |-> {"recv"}]
    ELSE LET data == Received(Head(inbox))
         IN  IF Len(data) > 0
                 THEN LET osc_address == ParsedDatagram[Head(inbox)]
                      IN  IF ~osc_address.ok
                              THEN [steps |-> <<"recv", "decode">>, raised |-> "ok",
                                    faults |-> {"decode"}]
                          ELSE IF osc_address.address = <<>>
                              THEN [steps |-> <<"recv", "decode">>, raised |-> "ok",
                                    faults |-> {}]
                          ELSE LET h == handle_incoming_osc(osc_address.address, played)
                               IN  [steps |-> <<"recv", "decode">> \o h.steps,
                                    raised |-> h.raised, faults |-> h.faults]
                 ELSE [steps |-> <<"recv">>, raised |-> "ok", faults |-> {}]

\* Mutant: a receive takes everything that is pending.
HandleIncomingMessagesDrain ==
    /\ pc = "recv"
    /\ \E got \in (IF inbox = <<>> THEN {"timeout"} ELSE RecvOutcomes),
          played \in HapticOutcomes :
          /\ got = "timeout" => timer = 0
          /\ LET r == IncomingBody(got, played)
             IN  /\ tk' = Log(tk, r.steps, r.faults)
                 /\ pc' = IF r.raised = "ok" \/ IncomingCatches(r.raised)
                              THEN "button" ELSE "aborted"
          /\ inbox' = IF got = "ok" THEN <<>> ELSE inbox
    /\ timer' = 0
    /\ UNCHANGED <<config, drv, attempt, hs, raw, prev_btn_state, curr_btn_state,
                   ev, obs, codec>>

HandleIncomingMessages ==
    /\ pc = "recv"
    /\ \E got \in (IF inbox = <<>> THEN {"timeout"} ELSE RecvOutcomes),
          played \in HapticOutcomes :
          /\ got = "timeout" => timer = 0
          /\ LET r == IncomingBody(got, played)
             IN  /\ tk' = Log(tk, r.steps, r.faults)
                 /\ pc' = IF r.raised = "ok" \/ IncomingCatches(r.raised)
                              THEN "button" ELSE "aborted"
          /\ inbox' = IF got = "ok" THEN Tail(inbox) ELSE inbox
    /\ timer' = 0
    /\ UNCHANGED <<config, drv, attempt, hs, raw, prev_btn_state, curr_btn_state,
                   ev, obs, codec>>

\* Lines 253 and 268: the messages of the two events.
PressMessage == build_osc_message(ButtonPressAddr, <<IntArg(PressCode)>>)
ReleaseMessage == build_osc_message(ButtonReleaseAddr, <<StrArg(ReleasePayload)>>)

\* The press branch's try block (lines 252-262): the message, the haptic
\* trigger when there is a driver, then sendto.
PressBody(played, sent) ==
    LET osc_msg == PressMessage
    IN  IF drv # "none" /\ played # "ok"
            THEN [steps |-> <<"haptic">>, raised |-> played, faults |-> {"haptic"},
                  sent |-> <<>>, sends |-> 0]
            ELSE [steps |-> (IF drv # "none" THEN <<"haptic">> ELSE <<>>) \o <<"send">>,
                  raised |-> sent,
                  faults |-> IF sent = "ok" THEN {} ELSE {"send_press"},
                  sent |-> osc_msg, sends |-> 1]

\* The release branch's try block (lines 267-272).
ReleaseBody(sent) ==
    LET osc_msg == ReleaseMessage
    IN  [steps |-> <<"send">>, raised |-> sent,
         faults |-> IF sent = "ok" THEN {} ELSE {"send_release"},
         sent |-> osc_msg, sends |-> 1]

\* Mutants: the release test pasted into the press branch; tests of the level
\* that forget prev_btn_state.
IsPressSwapped(prev, curr) == ~prev /\ curr
IsPressLevel(prev, curr) == ~curr
IsReleaseLevel(prev, curr) == curr
\* Mutant: any change of level taken for a press.
IsPressAnyChange(prev, curr) == prev # curr

\* Lines 250 and 265: the transitions handle_button_events looks for.
IsPress(prev, curr) == prev /\ ~curr
IsRelease(prev, curr) == ~prev /\ curr

\* Line 273: time.sleep(0.2) after a release; otherwise handle_button_events
\* returns and main sleeps (line 330).
\* Mutant: no debounce sleep.
AfterReleaseNoHold == [pc |-> "debounce", timer |-> 0]
\* Mutant: the release branch returns like the others.
AfterReleaseToSleep == [pc |-> "tick_sleep", timer |-> TickSleepMs]

AfterRelease == [pc |-> "debounce", timer |-> DebounceMs]
AfterReturn == [pc |-> "tick_sleep", timer |-> TickSleepMs]

\* handle_button_events up to its return or, after a release, up to the
\* debounce sleep.
ButtonEvents(played, sent) ==
    LET curr == raw
        pressed == IsPress(prev_btn_state, curr)
        released == IsRelease(prev_btn_state, curr)
        p == PressBody(played, sent)
        r == ReleaseBody(sent)
    IN  /\ curr_btn_state' = curr
        /\ obs' = [obs EXCEPT
                     !.seen = TRUE,
                     !.lastPoll = curr,
                     !.lastGap = IF pressed \/ released THEN obs.sinceRelease ELSE @,
                     !.sinceRelease = IF released THEN 0 ELSE @]
        /\ IF pressed
               THEN /\ ev' = [ev EXCEPT !.pressed = @ + 1, !.press_sends = @ + p.sends]
                    /\ tk' = [Log(tk, <<"poll", "pressed">> \o p.steps
                                      \o (IF PressCatches(p.raised) \/ p.raised = "ok"
                                              THEN <<"sleep">> ELSE <<>>),
                                  p.faults)
                                EXCEPT !.sent = p.sent]
                    /\ prev_btn_state' = curr
                    /\ pc' = IF p.raised = "ok" \/ PressCatches(p.raised)
                                 THEN AfterReturn.pc ELSE "aborted"
                    /\ timer' = AfterReturn.timer
           ELSE IF released
               THEN /\ ev' = [ev EXCEPT !.released = @ + 1, !.release_sends = @ + r.sends]
                    /\ tk' = [Log(tk, <<"poll", "released">> \o r.steps
                                      \o (IF ReleaseCatches(r.raised) \/ r.raised = "ok"
                                              THEN <<"debounce">> ELSE <<>>),
                                  r.faults)
                                EXCEPT !.sent = r.sent]
                    /\ prev_btn_state' = prev_btn_state
                    /\ pc' = IF r.raised = "ok" \/ ReleaseCatches(r.raised)
                                 THEN AfterRelease.pc ELSE "aborted"
                    /\ timer' = AfterRelease.timer
           ELSE /\ ev' = ev
                /\ tk' = Log(tk, <<"poll", "sleep">>, {})
                /\ prev_btn_state' = curr
                /\ pc' = AfterReturn.pc
                /\ timer' = AfterReturn.timer

HandleButtonEvents ==
    /\ pc = "button"
    /\ \E played \in HapticOutcomes, sent \in SendOutcomes : ButtonEvents(played, sent)
    /\ UNCHANGED <<config, drv, attempt, hs, raw, inbox, codec>>

\* time.sleep(0.2) is over: handle_button_events returns curr_btn_state.
DebounceElapsed ==
    /\ pc = "debounce"
    /\ timer = 0
    /\ prev_btn_state' = curr_btn_state
    /\ tk' = Log(tk, <<"sleep">>, {})
    /\ pc' = AfterReturn.pc
    /\ timer' = AfterReturn.timer
    /\ UNCHANGED <<config, drv, attempt, hs, raw, curr_btn_state, inbox, ev, obs, codec>>

\* time.sleep(0.05) is over: the next iteration of the while loop.
TickSleepElapsed ==
    /\ pc = "tick_sleep"
    /\ timer = 0
    /\ tk' = TickStart
    /\ pc' = "recv"
    /\ timer' = RecvTimeoutMs
    /\ UNCHANGED <<config, drv, attempt, hs, raw, prev_btn_state, curr_btn_state,
                   inbox, ev, obs, codec>>

(***************************************************************************)
(* The environment: time, the button, the network peer.                    *)
(***************************************************************************)
Waiting ==
    /\ timer > 0
    /\ pc \in {"debounce", "tick_sleep"} \/ (pc = "recv" /\ inbox = <<>>)

Later(age, d) == Min(age + d, AgeCap)

\* TimeStepMs (or what is left of the timer) passes.
Tick ==
    /\ Waiting
    /\ LET d == Min(timer, TimeStepMs)
       IN  /\ timer' = timer - d
           /\ obs' = [obs EXCEPT !.levelAge = Later(@, d),
                                 !.sinceRelease = Later(@, d)]
    /\ UNCHANGED <<pc, config, drv, attempt, hs, raw, prev_btn_state,
                   curr_btn_state, inbox, ev, tk, codec>>

\* The whole wait passes, unmeasured.
Elapse ==
    /\ Waiting
    /\ timer' = 0
    /\ UNCHANGED <<pc, config, drv, attempt, hs, raw, prev_btn_state,
                   curr_btn_state, inbox, ev, tk, obs, codec>>

\* The button changes level.
RawChange ==
    /\ InLoop
    /\ obs.flips < MaxFlips
    /\ raw' = ~raw
    /\ obs' = [obs EXCEPT
                 !.flips = @ + 1,
                 !.levelAge = 0,
                 !.seen = FALSE,
                 !.missed = @ \/ (obs.levelAge > PollPeriodMs /\ ~obs.seen),
                 !.firstPulse =
                     IF obs.flips = 1 /\ obs.raw0 /\ ~raw
                         THEN IF obs.levelAge > QuickPressMs THEN "slow"
                              ELSE IF obs.seen THEN "quick_seen"
                              ELSE "quick_unseen"
                         ELSE @]
    /\ UNCHANGED <<pc, timer, config, drv, attempt, hs, prev_btn_state,
                   curr_btn_state, inbox, ev, tk, codec>>

\* A datagram of the set from reaches recv_sock.
Deliver(from) ==
    /\ InLoop
    /\ Len(inbox) < MaxInbox
    /\ \E d \in from : inbox' = Append(inbox, d)
    /\ UNCHANGED <<pc, timer, config, drv, attempt, hs, raw, prev_btn_state,
                   curr_btn_state, ev, tk, obs, codec>>

\* The peer sends anything.
Arrive == Deliver(Datagrams)

\* The peer sends the one command the device knows.
ArriveCommand == Deliver({HapticPlayAddr \o <<0, 0, 0, 0>>})

Startup ==
    \/ LoadConfiguration
    \/ SetupHardware
    \/ ConnectWifi
    \/ WifiRetrySleep
    \/ SetupSockets
    \/ SendHandshake
    \/ HandshakeRetrySleep
    \/ EnterLoop

Loop ==
    \/ HandleIncomingMessages
    \/ HandleButtonEvents
    \/ DebounceElapsed
    \/ TickSleepElapsed

\* The program with its whole environment; a wait passes in one step.
Next ==
    \/ LoadConfiguration
    \/ SetupHardware
    \/ ConnectWifi
    \/ WifiRetrySleep
    \/ SetupSockets
    \/ SendHandshake
    \/ HandshakeRetrySleep
    \/ EnterLoop
    \/ HandleIncomingMessages
    \/ HandleButtonEvents
    \/ DebounceElapsed
    \/ TickSleepElapsed
    \/ Elapse
    \/ RawChange
    \/ Arrive

Spec == Init /\ [][Next]_vars

\* The program with the button and a clock of TimeStepMs; the peer sends
\* well-formed commands only.
NextTimed ==
    \/ LoadConfiguration
    \/ SetupHardware
    \/ ConnectWifi
    \/ WifiRetrySleep
    \/ SetupSockets
    \/ SendHandshake
    \/ HandshakeRetrySleep
    \/ EnterLoop
    \/ HandleIncomingMessages
    \/ HandleButtonEvents
    \/ DebounceElapsed
    \/ TickSleepElapsed
    \/ Tick
    \/ RawChange
    \/ ArriveCommand

TimedSpec == Init /\ [][NextTimed]_vars

\* The datagrams of a burst: the command, an unknown address, an empty address.
BurstDatagrams ==
    {HapticPlayAddr \o <<0, 0, 0, 0>>, UnknownAddr \o <<0, 0>>, <<0, 0, 0, 0>>}

\* The peer sends a burst: up to MaxPending datagrams wait on recv_sock.
ArriveQueued ==
    /\ InLoop
    /\ Len(inbox) < MaxPending
    /\ \E d \in BurstDatagrams : inbox' = Append(inbox, d)
    /\ UNCHANGED <<pc, timer, config, drv, attempt, hs, raw, prev_btn_state,
                   curr_btn_state, ev, tk, obs, codec>>

\* The program with a peer that sends bursts.
NextQueue ==
    \/ LoadConfiguration
    \/ SetupHardware
    \/ ConnectWifi
    \/ WifiRetrySleep
    \/ SetupSockets
    \/ SendHandshake
    \/ HandshakeRetrySleep
    \/ EnterLoop
    \/ HandleIncomingMessages
    \/ HandleButtonEvents
    \/ DebounceElapsed
    \/ TickSleepElapsed
    \/ Elapse
    \/ RawChange
    \/ ArriveQueued

QueueSpec == Init /\ [][NextQueue]_vars

\* The loop keeps running and its waits end.
FairSpec == Spec /\ WF_vars(Loop \/ Elapse)

(***************************************************************************)
(* The codec on its own: the inputs are drawn, the functions applied.      *)
(***************************************************************************)
RECURSIVE SeqsUpTo(_, _)
SeqsUpTo(S, n) ==
    IF n = 0 THEN {<<>>}
    ELSE LET shorter == SeqsUpTo(S, n - 1)
         IN  shorter \cup {Append(t, x) : t \in shorter, x \in S}

\* 'a', e acute (two bytes), the euro sign (three bytes)
AddressChars == {97, 233, 8364}
Addresses ==
    {<<47>> \o t : t \in SeqsUpTo(AddressChars, MaxTail)}
    \cup {ButtonPressAddr, HandshakeAddr, HapticPlayAddr}

ArgValues ==
    {IntArg(n) : n \in {0, 5, 42, -1, MinInt32, MaxInt32}}
    \cup {StrArg(t) : t \in {<<>>, <<104, 105>>, <<233>>, ReleasePayload}}
ArgLists == SeqsUpTo(ArgValues, MaxArgs)

ByteStrings == SeqsUpTo({0, 47, 255}, MaxRawLen)

CodecInit ==
    /\ pc = "codec"
    /\ timer = 0
    /\ config = [ssid |-> TRUE, password |-> TRUE, pc_ip |-> TRUE,
                 device_id |-> DefaultDeviceId]
    /\ drv = "none"
    /\ attempt = 0
    /\ hs = HsIdle
    /\ raw = TRUE
    /\ prev_btn_state = TRUE
    /\ curr_btn_state = TRUE
    /\ inbox = <<>>
    /\ ev = [pressed |-> 0, released |-> 0, press_sends |-> 0, release_sends |-> 0]
    /\ tk = TickStart
    /\ obs = [flips |-> 0, raw0 |-> TRUE, levelAge |-> 0, seen |-> FALSE,
              lastPoll |-> TRUE, missed |-> FALSE,
              sinceRelease |-> AgeCap, lastGap |-> AgeCap, firstPulse |-> "na"]
    /\ \/ \E a \in Addresses, g \in ArgLists :
             codec = [CodecIdle EXCEPT !.stage = "message", !.address = a, !.args = g]
       \/ \E b \in ByteStrings :
             codec = [CodecIdle EXCEPT !.stage = "bytes", !.bytes = b]

CodecUnchanged ==
    UNCHANGED <<pc, timer, config, drv, attempt, hs, raw, prev_btn_state,
                curr_btn_state, inbox, ev, tk, obs>>

CodecPad ==
    /\ codec.stage = "bytes"
    /\ codec' = [codec EXCEPT !.stage = "padded", !.msg = pad4(codec.bytes)]
    /\ CodecUnchanged

CodecBuild ==
    /\ codec.stage = "message"
    /\ codec' = [codec EXCEPT
                   !.stage = "built",
                   !.fields = OscFields(codec.address, codec.args),
                   !.msg = build_osc_message(codec.address, codec.args)]
    /\ CodecUnchanged

CodecParse ==
    /\ codec.stage = "built"
    /\ codec' = [codec EXCEPT !.stage = "parsed",
                              !.parsed = parse_osc_message(codec.msg)]
    /\ CodecUnchanged

CodecNext ==
    \/ CodecPad
    \/ CodecBuild
    \/ CodecParse

CodecSpec == CodecInit /\ [][CodecNext]_vars

(***************************************************************************)
(* Properties.                                                             *)
(***************************************************************************)
Has(seq, x) == \E i \in 1..Len(seq) : seq[i] = x

\* C1 (Spec).  Edge detection: a run of handle_button_events emits Pressed
\* exactly when the reading is pressed and the previous poll's reading (TRUE
\* before the first poll) was not, Released exactly when the reading is not
\* pressed and the previous one was, and nothing when the two readings are
\* equal; no other step emits an event.
C1_EdgeDetector ==
    [][ IF pc = "button" /\ pc' # "button"
            THEN /\ ev'.pressed - ev.pressed = (IF obs.lastPoll /\ ~raw THEN 1 ELSE 0)
                 /\ ev'.released - ev.released = (IF ~obs.lastPoll /\ raw THEN 1 ELSE 0)
                 /\ raw = obs.lastPoll =>
                        /\ ev' = ev
                        /\ ~Has(tk'.steps, "pressed")
                        /\ ~Has(tk'.steps, "released")
            ELSE ev' = ev ]_vars

\* A press and its release have each been reported once, and the tick after
\* them, with the input steady, has reported nothing.
C1_Witness ==
    /\ pc = "tick_sleep"
    /\ ev.pressed = 1
    /\ ev.released = 1
    /\ Has(tk.steps, "poll")
    /\ ~Has(tk.steps, "pressed")
    /\ ~Has(tk.steps, "released")

\* C2 (TimedSpec).  Debounce: every event that follows a Released event comes
\* at least the debounce interval after it, and for the whole interval after a
\* Released event the loop is held in the debounce sleep, where no change of
\* the raw input produces an event.
C2_DebounceHold ==
    /\ obs.lastGap >= DebounceMs
    /\ obs.sinceRelease < DebounceMs => pc = "debounce"

\* A bounce: the button is pressed again within the hold after a release.
C2_Witness ==
    /\ pc = "debounce"
    /\ ev.released = 1
    /\ ~raw
    /\ obs.levelAge > 0
    /\ obs.sinceRelease < DebounceMs

C4_Scenario5 ==
    (obs.firstPulse \in {"quick_seen", "quick_unseen"} /\ obs.flips = 2 /\ obs.seen)
        => (ev.pressed = 1 /\ ev.released = 1)

\* C4 as amended (TimedSpec).  For a press and its release within
\* QuickPressMs: a press that a poll fell into is reported by exactly one
\* Pressed and one Released event; a press between two polls is reported by
\* none; a press longer than a polling interval is always polled; and a second
\* press is reported no sooner than the debounce interval after the Released
\* event.
C4_Scenario5Polled ==
    /\ (obs.firstPulse = "quick_seen" /\ obs.flips = 2 /\ obs.seen)
           => (ev.pressed = 1 /\ ev.released = 1)
    /\ (obs.firstPulse = "quick_unseen" /\ obs.flips = 2)
           => (ev.pressed = 0 /\ ev.released = 0)
    /\ (obs.raw0 /\ obs.flips = 1 /\ obs.levelAge > PollPeriodMs) => obs.seen
    /\ (obs.firstPulse \in {"quick_seen", "quick_unseen"} /\ ev.pressed = 2
            /\ ev.released = 1)
           => obs.lastGap >= DebounceMs

\* A quick press was reported, the button was pressed again inside the hold,
\* and that second press has been reported after the hold.
C4_Witness ==
    /\ obs.firstPulse = "quick_seen"
    /\ obs.flips = 3
    /\ ev.pressed = 2
    /\ ev.released = 1
    /\ obs.sinceRelease - obs.levelAge < DebounceMs
    /\ obs.sinceRelease < AgeCap

\* C5 as claimed (CodecSpec): parse_osc_message(build_osc_message(address,
\* args)) is the address.
C5_RoundTrip ==
    codec.stage = "parsed" => codec.parsed = [ok |-> TRUE, address |-> codec.address]

\* C6 (CodecSpec).  pad4(s) is s followed by (4 - len(s) mod 4) mod 4 zero
\* bytes, none when len(s) is a multiple of 4, and has a length that is a
\* multiple of 4; every field of a built message and the message itself have
\* lengths that are multiples of 4.
C6_PaddingInvariant ==
    /\ codec.stage = "padded" =>
           LET s == codec.bytes
               p == codec.msg
               k == Len(p) - Len(s)
           IN  /\ Len(p) % 4 = 0
               /\ k \in 0..3
               /\ k = (4 - (Len(s) % 4)) % 4
               /\ Len(s) % 4 = 0 => p = s
               /\ SubSeq(p, 1, Len(s)) = s
               /\ \A i \in (Len(s) + 1)..Len(p) : p[i] = 0
    /\ codec.stage \in {"built", "parsed"} =>
           /\ Len(codec.msg) % 4 = 0
           /\ Len(codec.fields) = 2 + Len(codec.args)
           /\ \A i \in 1..Len(codec.fields) : Len(codec.fields[i]) % 4 = 0

\* pad4 has been applied to a byte string whose length is a multiple of 4.
C6_Witness ==
    /\ codec.stage = "padded"
    /\ Len(codec.bytes) = 4
    /\ codec.msg = codec.bytes

RoundUp4(n) == ((n + 3) \div 4) * 4

Int32Of(b0, b1, b2, b3) ==
    (IF b0 >= 128 THEN b0 - 256 ELSE b0) * 16777216 + b1 * 65536 + b2 * 256 + b3

\* msg holds, from position pos to its end, the arguments args.
RECURSIVE ArgsLaidOutAt(_, _, _)
ArgsLaidOutAt(msg, pos, args) ==
    IF args = <<>> THEN pos = Len(msg) + 1
    ELSE IF Head(args).type = "i"
        THEN /\ pos + 3 <= Len(msg)
             /\ msg[pos] \in 0..255 /\ msg[pos + 1] \in 0..255
             /\ msg[pos + 2] \in 0..255 /\ msg[pos + 3] \in 0..255
             /\ Int32Of(msg[pos], msg[pos + 1], msg[pos + 2], msg[pos + 3])
                    = Head(args).val
             /\ ArgsLaidOutAt(msg, pos + 4, Tail(args))
        ELSE LET u == Utf8Encode(Head(args).text)
                 w == RoundUp4(Len(u) + 1)
             IN  /\ pos + w - 1 <= Len(msg)
                 /\ \A i \in 1..Len(u) : msg[pos + i - 1] = u[i]
                 /\ \A i \in (Len(u) + 1)..w : msg[pos + i - 1] = 0
                 /\ ArgsLaidOutAt(msg, pos + w, Tail(args))

\* C7 (CodecSpec).  A built message is the address bytes zero-padded to a
\* 4-byte boundary, then ',' and one letter per argument in order ('i' or
\* 's') zero-padded to a 4-byte boundary, then per argument its four bytes
\* big-endian two's complement or its UTF-8 bytes, a null byte and zero
\* padding to a 4-byte boundary; '/button/press' without arguments takes 20
\* bytes and '/button/handshake' with 42 ends in ",i\0\0" 00 00 00 2A.
C7_EncodeLayout ==
    codec.stage \in {"built", "parsed"} =>
        LET msg == codec.msg
            a == Utf8Encode(codec.address)
            n == Len(codec.args)
            A == RoundUp4(Len(a))
            T == RoundUp4(1 + n)
        IN  /\ Len(msg) >= A + T
            /\ \A i \in 1..Len(a) : msg[i] = a[i]
            /\ \A i \in (Len(a) + 1)..A : msg[i] = 0
            /\ msg[A + 1] = 44
            /\ \A i \in 1..n :
                   msg[A + 1 + i] = (IF codec.args[i].type = "s" THEN 115 ELSE 105)
            /\ \A i \in (A + n + 2)..(A + T) : msg[i] = 0
            /\ ArgsLaidOutAt(msg, A + T + 1, codec.args)
            /\ (codec.address = ButtonPressAddr /\ codec.args = <<>>) => Len(msg) = 20
            /\ (codec.address = HandshakeAddr /\ codec.args = <<IntArg(42)>>) =>
                   SubSeq(msg, Len(msg) - 7, Len(msg)) = <<44, 105, 0, 0, 0, 0, 0, 42>>

\* A message with the arguments [5, "hi"] has been built; its type tags are ",is".
C7_Witness ==
    /\ codec.stage = "built"
    /\ codec.args = <<IntArg(5), StrArg(<<104, 105>>)>>
    /\ codec.address = HandshakeAddr
    /\ SubSeq(codec.msg, 21, 24) = <<44, 105, 115, 0>>

C9_LoopNeverStops ==
    /\ [](pc # "aborted")
    /\ [](InLoop => <>(pc = "tick_sleep"))
    /\ [](pc = "tick_sleep" => <>(pc = "recv"))

\* A tick in which the inbound haptic trigger and the release send both
\* failed has reached its tick sleep.
C9_Witness ==
    /\ pc = "tick_sleep"
    /\ tk.faults = {"haptic_in", "send_release"}

StepRank(x) ==
    CASE x = "recv" -> 1
      [] x = "decode" -> 2
      [] x = "dispatch" -> 3
      [] x = "haptic_in" -> 4
      [] x = "poll" -> 5
      [] x \in {"pressed", "released"} -> 6
      [] x = "haptic" -> 7
      [] x = "send" -> 8
      [] x = "debounce" -> 9
      [] x = "sleep" -> 10

\* C10 (Spec).  The steps of a tick come in the order receive (decode,
\* dispatch), button poll (event, send), debounce, tick sleep, each at most
\* once; the receive is the first step of every tick and the button poll
\* follows it whatever the receive found, so that every tick that sleeps has
\* polled the button.
C10_TickOrder ==
    /\ pc # "aborted"
    /\ \A i \in 1..(Len(tk.steps) - 1) :
           StepRank(tk.steps[i]) < StepRank(tk.steps[i + 1])
    /\ pc = "recv" => tk.steps = <<>>
    /\ pc = "button" => (tk.steps # <<>> /\ tk.steps[1] = "recv"
                          /\ ~Has(tk.steps, "poll"))
    /\ pc \in {"debounce", "tick_sleep"} =>
           (tk.steps[1] = "recv" /\ Has(tk.steps, "poll"))
    /\ pc = "tick_sleep" => tk.steps[Len(tk.steps)] = "sleep"
    /\ Has(tk.steps, "send") =>
           (Has(tk.steps, "pressed") \/ Has(tk.steps, "released"))

\* A tick whose datagram failed to decode has polled the button, sent the
\* press and reached the tick sleep.
C10_Witness ==
    /\ pc = "tick_sleep"
    /\ tk.faults = {"decode"}
    /\ tk.steps = <<"recv", "decode", "poll", "pressed", "send", "sleep">>

\* C11 (Spec).  Dispatch: in the receive step of a tick, the haptic action is
\* triggered exactly when a datagram was decoded, its address is
\* '/haptic/play' and there is a driver; '/haptic/play' without a driver does
\* nothing and raises nothing; any other address is reported as unknown and
\* does nothing; and no receive step changes the driver, the detector state,
\* the events or the configuration.
C11_Dispatch ==
    [][ (pc = "recv" /\ pc' # "recv") =>
            LET dispatched == Has(tk'.steps, "dispatch")
                played == Has(tk'.steps, "haptic_in")
                decoded == IF inbox # <<>>
                               THEN parse_osc_message(Received(Head(inbox)))
                               ELSE ParseFailed
                command == decoded.address = HapticPlayAddr
            IN  /\ dispatched =>
                       (inbox # <<>> /\ inbox' = Tail(inbox) /\ decoded.ok)
                /\ played <=> (dispatched /\ command /\ drv # "none")
                /\ (dispatched /\ command /\ drv = "none") =>
                       (tk'.faults = {} /\ pc' = "button")
                /\ (dispatched /\ ~command) =>
                       (tk'.faults = {"unknown"} /\ pc' = "button")
                /\ UNCHANGED <<config, drv, raw, prev_btn_state, curr_btn_state, ev>>
      ]_vars

\* '/haptic/play' has arrived and triggered the driver.
C11_Witness ==
    /\ pc = "button"
    /\ drv = "drv"
    /\ tk.steps = <<"recv", "decode", "dispatch", "haptic_in">>
    /\ tk.faults = {}

\* No null byte anywhere in d.
NoNull(d) == \A i \in 1..Len(d) : d[i] # 0
\* Before its first null byte d has a byte that UTF-8 never uses (0xF5..0xFF).
BadPrefix(d) ==
    \E i \in 1..Len(d) : d[i] >= 245 /\ \A j \in 1..(i - 1) : d[j] # 0

\* C12 (Spec).  A received datagram without a null byte, or with bytes that
\* are not UTF-8 before its first null byte, makes parse_osc_message return
\* None; the receive step ends without an exception, dispatches nothing,
\* triggers no haptic action and leaves prev_btn_state as it was.
C12_DecodeError ==
    [][ (pc = "recv" /\ inbox # <<>> /\ inbox' = Tail(inbox)
            /\ (NoNull(Head(inbox)) \/ BadPrefix(Head(inbox)))) =>
            /\ ~parse_osc_message(Received(Head(inbox))).ok
            /\ pc' = "button"
            /\ ~Has(tk'.steps, "dispatch")
            /\ ~Has(tk'.steps, "haptic_in")
            /\ tk'.faults \subseteq {"decode"}
            /\ prev_btn_state' = prev_btn_state
      ]_vars

\* A datagram that failed to decode has been dropped.
C12_Witness ==
    /\ pc = "button"
    /\ tk.steps = <<"recv", "decode">>
    /\ tk.faults = {"decode"}

\* C13 as claimed (Spec): as many press sends as Pressed events and as many
\* release sends as Released events have been attempted.
C13_OneSendPerEvent ==
    /\ ev.press_sends = ev.pressed
    /\ ev.release_sends = ev.released

RequiredPresent == config.ssid /\ config.password /\ config.pc_ip
BeforeHandshakePcs ==
    {"load_configuration", "setup_hardware", "connect_wifi", "wifi_retry_sleep",
     "setup_sockets", "fatal", "exit"}
NothingDone ==
    /\ hs = HsIdle
    /\ tk = TickStart
    /\ ev = [pressed |-> 0, released |-> 0, press_sends |-> 0, release_sends |-> 0]
    /\ ~obs.seen
    /\ inbox = <<>>

\* C14 (Spec).  Startup gating: the program gets past load_configuration
\* only with SSID, password and destination all present, and to the sockets
\* only from a WiFi attempt (one of at most WifiMaxRetries) that connected;
\* with a value missing or all WiFi attempts failed it stops for good, and
\* up to the handshake, and for ever when stopped, no handshake send, poll,
\* receive or event send has happened; the loop is entered only from the
\* return of send_handshake.
C14_StartupGating ==
    /\ [](~RequiredPresent => pc \in {"load_configuration", "fatal"})
    /\ [](pc \in {"connect_wifi", "wifi_retry_sleep"} => attempt < WifiMaxRetries)
    /\ [](pc = "exit" => attempt = WifiMaxRetries - 1)
    /\ [](pc \in BeforeHandshakePcs => NothingDone)
    /\ [][(pc \in {"fatal", "exit"}) => pc' = pc ]_vars
    /\ [][(pc' = "setup_sockets" /\ pc # "setup_sockets") => pc = "connect_wifi" ]_vars
    /\ [][(pc' = "send_handshake" /\ pc \in BeforeHandshakePcs) => pc = "setup_sockets" ]_vars
    /\ [][(pc' \in LoopPcs /\ pc \notin LoopPcs) => pc = "ready" ]_vars

\* All three WiFi attempts have failed and main has returned.
C14_Witness ==
    /\ pc = "exit"
    /\ RequiredPresent
    /\ attempt = WifiMaxRetries - 1
    /\ NothingDone

\* C15 (Spec).  send_handshake always returns, with success or failure, and
\* never ends the program; whatever it returned, the next step enters the
\* loop with prev_btn_state = TRUE; and inside the loop no handshake is sent
\* and the loop is never left for the handshake again.
C15_HandshakeNonFatal ==
    /\ [](pc = "fatal" => ~RequiredPresent)
    /\ [](pc = "ready" => (hs.result \in {"success", "failure"} /\ ENABLED EnterLoop))
    /\ [][(pc = "ready" /\ pc' # "ready") =>
              (pc' = "recv" /\ prev_btn_state' = TRUE) ]_vars
    /\ [](InLoop => hs = HsIdle)
    /\ [][InLoop => pc' \in LoopPcs ]_vars

\* The handshake failed on all its attempts (DEVICE_ID is no number) and the
\* loop has polled the button.
C15_Witness ==
    /\ pc = "tick_sleep"
    /\ ~PyInt(config.device_id).ok
    /\ obs.seen
    /\ hs = HsIdle

\* C16 as claimed (Spec): when send_handshake has returned and no sendto call
\* of it failed, it has sent exactly one datagram, on its first attempt, and
\* returned success.
C16_HandshakeIdentity ==
    (pc = "ready" /\ hs.sends = (IF hs.result = "success" THEN 1 ELSE 0)) =>
        (hs.result = "success" /\ hs.sends = 1 /\ hs.attempts = 1)

\* C17 as claimed (Spec): a tick that emitted a Pressed event and reached its
\* tick sleep has attempted the send of the press datagram.
C17_PressAlwaysSent ==
    (pc = "tick_sleep" /\ Has(tk.steps, "pressed")) => Has(tk.steps, "send")

\* C18 (Spec).  Event alternation: events are emitted one at a time, a
\* Pressed only when as many Released as Pressed have been emitted (so the
\* first event is a Pressed), a Released only when one more Pressed than
\* Released has been emitted; outside the debounce hold the stored previous
\* state is not-pressed exactly when the two counts are equal; and no tick
\* emits both a Pressed and a Released event.
C18_EventAlternation ==
    /\ [](ev.pressed - ev.released \in {0, 1})
    /\ [](pc # "debounce" => (prev_btn_state <=> ev.pressed = ev.released))
    /\ [](~(Has(tk.steps, "pressed") /\ Has(tk.steps, "released")))
    /\ [][(ev' # ev) =>
              \/ /\ ev.pressed = ev.released
                 /\ ev'.pressed = ev.pressed + 1
                 /\ ev'.released = ev.released
              \/ /\ ev.pressed = ev.released + 1
                 /\ ev'.pressed = ev.pressed
                 /\ ev'.released = ev.released + 1 ]_vars

\* Pressed, Released, Pressed have been emitted and the next tick begins.
C18_Witness ==
    /\ pc = "recv"
    /\ ev.pressed = 2
    /\ ev.released = 1
    /\ ~prev_btn_state

\* C19 (TimedSpec).  After every Released event, whatever sendto answered,
\* the loop is in the debounce hold until the tick's sleep begins, and the
\* hold has lasted DebounceMs by then; the hold is entered only in a tick
\* that emitted a Released event (never with a Pressed event or none); and
\* while the hold lasts nothing is received, polled, emitted or sent.
C19_HoldAfterRelease ==
    /\ []((Has(tk.steps, "released") /\ ~Has(tk.steps, "sleep")) => pc = "debounce")
    /\ [](pc = "debounce" =>
              (Has(tk.steps, "released") /\ ~Has(tk.steps, "pressed")))
    /\ [](Has(tk.steps, "debounce") <=> Has(tk.steps, "released"))
    /\ []((pc = "tick_sleep" /\ Has(tk.steps, "released")) =>
              obs.sinceRelease >= DebounceMs)
    /\ [][(pc = "debounce") =>
              /\ ev' = ev
              /\ Len(inbox') >= Len(inbox)
              /\ obs'.seen => obs.seen
              /\ obs'.lastPoll = obs.lastPoll
              /\ \/ pc' = "debounce" /\ tk' = tk
                 \/ pc' = "tick_sleep" /\ timer = 0 /\ tk'.steps = tk.steps \o <<"sleep">>
          ]_vars

\* The release send failed, the hold was applied all the same and is over.
C19_Witness ==
    /\ pc = "tick_sleep"
    /\ Has(tk.steps, "released")
    /\ tk.faults = {"send_release"}
    /\ obs.sinceRelease >= DebounceMs
    /\ obs.sinceRelease < AgeCap

Count(seq, x) == Cardinality({i \in 1..Len(seq) : seq[i] = x})

\* C20 (QueueSpec).  Every tick makes exactly one receive attempt and so at
\* most one decode, one dispatch and one inbound haptic trigger; a receive
\* takes nothing or the datagram at the head of the queue, leaving the
\* others, in their order, to the following ticks; nothing but a receive
\* takes a datagram; and a datagram whose first byte is a null byte is
\* dropped without dispatch.
C20_OneInboundPerTick ==
    /\ [](/\ Count(tk.steps, "recv") <= 1
          /\ Count(tk.steps, "decode") <= 1
          /\ Count(tk.steps, "dispatch") <= 1
          /\ Count(tk.steps, "haptic_in") <= 1)
    /\ [](pc \in {"button", "debounce", "tick_sleep"} => Count(tk.steps, "recv") = 1)
    /\ [][(pc = "recv" /\ pc' # "recv") =>
              /\ inbox' = inbox \/ (inbox # <<>> /\ inbox' = Tail(inbox))
              /\ Has(tk'.steps, "decode") => (inbox # <<>> /\ inbox' = Tail(inbox))
              /\ Has(tk'.steps, "dispatch") => Has(tk'.steps, "decode")
              /\ (Has(tk'.steps, "decode") /\ Head(inbox)[1] = 0) =>
                     (~Has(tk'.steps, "dispatch") /\ tk'.faults = {} /\ pc' = "button")
          ]_vars
    /\ [][(Len(inbox') < Len(inbox)) => (pc = "recv" /\ inbox' = Tail(inbox)) ]_vars
    /\ [][(Len(inbox') > Len(inbox)) =>
              (Len(inbox') = Len(inbox) + 1 /\ SubSeq(inbox', 1, Len(inbox)) = inbox) ]_vars

\* Of two pending datagrams the first has been dispatched in this tick and
\* the second waits for the next.
C20_Witness ==
    /\ pc = "button"
    /\ Has(tk.steps, "dispatch")
    /\ Len(inbox) = 1
    /\ inbox[1] = HapticPlayAddr \o <<0, 0, 0, 0>>

====
